---- MODULE Spec2Model ----
(***************************************************************************)
(* Model of butil::ScopeGuard (src/butil/memory/scope_guard.h): the guard  *)
(* object (_callback, _dismiss), its private constructor, move             *)
(* constructor, destructor and dismiss(), the MakeScopeGuard factory, the  *)
(* internal operator+ and the BRPC_SCOPE_EXIT macro, driven by a client    *)
(* that opens block scopes, declares guards in them, executes statements,  *)
(* and leaves the scopes by fall-through, by return or by a thrown         *)
(* exception.                                                              *)
(*                                                                         *)
(* A callable is modelled by the behaviour it has when invoked (an element *)
(* of Actions).  MakeScopeGuard takes a forwarding reference: for an       *)
(* rvalue argument Callback is the callable's type and _callback is a      *)
(* value held by the guard; for an lvalue argument Callback is an lvalue   *)
(* reference type and _callback is a reference to the caller's object.     *)
(* (A reference to a function cannot be made to run anything else, so a    *)
(* named function behaves as a value and is covered by the rvalue case.)   *)
(* Named callables of the client live in storage that outlives every       *)
(* scope of the model (static storage), so a reference to them never       *)
(* dangles.                                                                *)
(***************************************************************************)
EXTENDS Integers, Sequences, FiniteSets, TLC

\* Bounds of the model.
MaxOps    == 3    \* statements executed in one run (declarations of guards,
                  \* dismiss() calls, assignments, other statements)
MaxScopes == 2    \* block scopes entered in one run, nested or in sequence

Actions  == {"f", "g"}      \* behaviours a named callable can be given
Names    == {"n1"}          \* named (lvalue) callables of the client
Values   == {"v0", "v1"}    \* values the client assigns to its variable
GuardIds == 1 .. MaxOps
NoGuard  == 0               \* "by" of an unnamed temporary guard

VARIABLES
    guards,     \* guard id -> the guard object and its history
    scopes,     \* stack of open block scopes, innermost last
    named,      \* name -> behaviour currently stored in the client's callable
    trace,      \* observable events in program order
    nextScope,  \* id of the next block scope
    nops,       \* statements executed so far
    elide,      \* whether this build elides the copies of returned prvalues
    env         \* value of a variable of the client that the blocks of
                \* BRPC_SCOPE_EXIT read and write

vars == <<guards, scopes, named, trace, nextScope, nops, elide, env>>

----------------------------------------------------------------------------
\* The callable member.

\* Callback _callback, for Callback a non-reference type (rvalue argument).
ByValue(f) == [ref |-> FALSE, val |-> f, name |-> "none"]

\* Callback _callback, for Callback an lvalue reference type (lvalue argument).
ByRef(n) == [ref |-> TRUE, val |-> "none", name |-> n]

\* _callback(): a value runs its own behaviour, a reference runs whatever the
\* referenced object holds now.
Invoke(cb) == IF cb.ref THEN named[cb.name] ELSE cb.val

\* What std::move leaves in the source callable: a valid object whose
\* behaviour is not specified (a closure keeps it, a std::function is empty).
MovedFrom(cb) == [cb EXCEPT !.val = "unspecified"]

----------------------------------------------------------------------------
\* The ScopeGuard object: [_callback, _dismiss].

\* Mutant of GuardCtor: the flag starts set.
GuardCtorDismissed(cb) == [_callback |-> cb, _dismiss |-> TRUE]

\* explicit ScopeGuard(Callback&& callback)
GuardCtor(cb) == [_callback |-> cb, _dismiss |-> FALSE]

\* Mutant of dismiss: the flag is left as it is.
dismissNothing(g) == g

\* Mutant of dismiss: the flag is flipped.
dismissToggle(g) == [g EXCEPT !._dismiss = ~@]

\* void dismiss()
dismiss(g) == [g EXCEPT !._dismiss = TRUE]

\* Mutant of MoveCtor: other.dismiss() is left out.
MoveCtorKeepsOther(other) ==
    [new |-> [_callback |-> other._callback, _dismiss |-> other._dismiss],
     old |-> [other EXCEPT !._callback = MovedFrom(other._callback)]]

\* Mutant of MoveCtor: _dismiss is initialised to false, not from other.
MoveCtorRearms(other) ==
    [new |-> [_callback |-> other._callback, _dismiss |-> FALSE],
     old |-> dismiss([other EXCEPT !._callback = MovedFrom(other._callback)])]

\* ScopeGuard(ScopeGuard&& other): the new object and what is left of other.
MoveCtor(other) ==
    [new |-> [_callback |-> other._callback, _dismiss |-> other._dismiss],
     old |-> dismiss([other EXCEPT !._callback = MovedFrom(other._callback)])]

\* Mutant of Dtor: the callback is never run.
DtorNever(g) == <<>>

\* Mutant of Dtor: the callback is run a second time.
DtorTwice(g) ==
    IF ~g._dismiss THEN <<Invoke(g._callback), Invoke(g._callback)>> ELSE <<>>

\* ~ScopeGuard(): the behaviours it runs, in order.
Dtor(g) == IF ~g._dismiss THEN <<Invoke(g._callback)>> ELSE <<>>

\* A prvalue guard handed from a return statement or to a declaration: with
\* elision it is the same object, without it the destination is move
\* constructed and the temporary destroyed.  r = [result, calls, hops].
Hand(r, el) ==
    IF el THEN r
    ELSE LET mv == MoveCtor(r.result)
         IN  [result |-> mv.new,
              calls  |-> r.calls \o Dtor(mv.old),
              hops   |-> r.hops + 1]

\* MakeScopeGuard(callback): return ScopeGuard<Callback>{forward(callback)};
MakeScopeGuard(cb, el) ==
    Hand([result |-> GuardCtor(cb), calls |-> <<>>, hops |-> 0], el)

\* Mutant of ScopeExitPlus: the guard is dismissed before it is returned.
ScopeExitPlusDismissed(cb, el) ==
    LET r == Hand(MakeScopeGuard(cb, el), el)
    IN  [r EXCEPT !.result = dismiss(@)]

\* internal::operator+(ScopeExitHelper, callback): return MakeScopeGuard(...);
ScopeExitPlus(cb, el) == Hand(MakeScopeGuard(cb, el), el)

----------------------------------------------------------------------------
\* The client program: block scopes, declarations, statements, exits.

\* An event; saw is the value of the client's variable that the block of a
\* BRPC_SCOPE_EXIT read when it ran.
Ev(kind, scope, by, origin, act) ==
    [kind |-> kind, scope |-> scope, by |-> by, origin |-> origin, act |-> act,
     saw |-> "none"]

\* Mutant of Capture: [=], the closure holds a copy of the variable.
CaptureByCopy(v) == [byref |-> FALSE, snap |-> v]

\* [&]: the closure of BRPC_SCOPE_EXIT holds a reference to the client's
\* variable (snap records the value at the declaration).
Capture(v) == [byref |-> TRUE, snap |-> v]

\* What a closure reads from the variable, and what the variable holds after
\* the closure has assigned w to it.
ReadThrough(cap)     == IF cap.byref THEN env ELSE cap.snap
WriteThrough(cap, w) == IF cap.byref THEN w ELSE env

NoObj == [_callback |-> ByValue("none"), _dismiss |-> TRUE]

Unborn == [status |-> "none", obj |-> NoObj, origin |-> 0, scope |-> 0,
           via |-> "none", ndismiss |-> 0, movedFrom |-> FALSE, hops |-> 0,
           made |-> "none", from |-> 0, srcNd |-> 0, srcMoved |-> FALSE,
           cap |-> Capture("none")]

Top     == scopes[Len(scopes)]
Running == Len(scopes) > 0 /\ Top.mode = "run"
CanRun  == Running /\ nops < MaxOps
Leaving == Len(scopes) > 0 /\ Top.mode \in {"exit", "unwind"}

Born      == {i \in GuardIds : guards[i].status # "none"}
Fresh(k)  == Cardinality(Born) + k
HasFresh(k) == Cardinality(Born) + k <= MaxOps

\* Guards that are variables of a scope that is still open.
InScope == {i \in GuardIds : \E d \in 1 .. Len(scopes) :
                \E k \in 1 .. Len(scopes[d].locals) : scopes[d].locals[k] = i}

\* The events of the temporaries' destructors while guard id is initialised.
TempCalls(calls, sc, id) ==
    [k \in 1 .. Len(calls) |-> Ev("call", sc, NoGuard, id, calls[k])]

\* A new guard variable of the scope at depth d, initialised from r by a
\* factory (via "make" or "sugar"; origin is the guard's own id).  Beside the
\* object, the entry records the guard's history: the behaviour its callable
\* had when it was handed to the factory (made), the dismiss() calls on it
\* (ndismiss), whether it was moved from, and the temporaries its
\* initialisation went through (hops).
Declared(id, r, d, via, made) ==
    [status |-> "live", obj |-> r.result, origin |-> id,
     scope |-> scopes[d].id, via |-> via, ndismiss |-> 0, movedFrom |-> FALSE,
     hops |-> r.hops, made |-> made, from |-> NoGuard, srcNd |-> 0,
     srcMoved |-> FALSE, cap |-> Capture("none")]

\* A new guard variable of the scope at depth d, move constructed from the
\* guard a: it records a and what had happened to a before (srcNd dismiss()
\* calls, srcMoved an earlier move out of a).
MovedTo(a, new, d) ==
    [status |-> "live", obj |-> new, origin |-> guards[a].origin,
     scope |-> scopes[d].id, via |-> "move", ndismiss |-> 0, movedFrom |-> FALSE,
     hops |-> 0, made |-> guards[a].made, from |-> a,
     srcNd |-> guards[a].ndismiss, srcMoved |-> guards[a].movedFrom,
     cap |-> guards[a].cap]

PushLocal(d, id) ==
    [scopes EXCEPT ![d].locals = Append(@, id)]

Init ==
    /\ guards = [i \in GuardIds |-> Unborn]
    /\ scopes = <<>>
    /\ named = [n \in Names |-> "f"]
    /\ trace = <<>>
    /\ nextScope = 1
    /\ nops = 0
    /\ elide \in BOOLEAN
    /\ env = "v0"

\* "{" or "try {".  Whether a block is a try block with a matching handler
\* shows only when an exception reaches its end, so it is settled by Throw.
EnterScope ==
    /\ Len(scopes) = 0 \/ Running
    /\ nextScope <= MaxScopes
    /\ scopes' = Append(scopes, [id |-> nextScope, locals |-> <<>>,
                                 mode |-> "run", try |-> FALSE, ret |-> NoGuard])
    /\ nextScope' = nextScope + 1
    /\ UNCHANGED <<guards, named, trace, nops, elide, env>>

\* Any other statement of the innermost scope.
Stmt ==
    /\ CanRun
    /\ trace' = Append(trace, Ev("stmt", Top.id, NoGuard, 0, "none"))
    /\ UNCHANGED <<guards, scopes, named, nextScope, elide, env>>
    /\ nops' = nops + 1

\* The behaviour of the closure written at the declaration of guard id:
\* every declaration has a closure of its own.
Closure(id) == "c" \o ToString(id)

\* auto x = MakeScopeGuard(<rvalue callable>);
CreateRvalue ==
    /\ CanRun /\ HasFresh(1)
    /\ LET id == Fresh(1)
           f  == Closure(id)
           r  == Hand(MakeScopeGuard(ByValue(f), elide), elide)
       IN  /\ guards' = [guards EXCEPT ![id] =
                            Declared(id, r, Len(scopes), "make", f)]
           /\ scopes' = PushLocal(Len(scopes), id)
           /\ trace'  = trace \o TempCalls(r.calls, Top.id, id)
    /\ UNCHANGED <<named, nextScope, elide, env>>
    /\ nops' = nops + 1

\* auto x = MakeScopeGuard(n); for a named callable n.  Callback is an lvalue
\* reference type, whose move constructor is ill-formed, so the statement
\* only builds where the returned prvalue initialises x directly.
CreateLvalue(n) ==
    /\ CanRun /\ HasFresh(1)
    /\ elide
    /\ LET id == Fresh(1)
           r  == Hand(MakeScopeGuard(ByRef(n), TRUE), TRUE)
       IN  /\ guards' = [guards EXCEPT ![id] =
                            Declared(id, r, Len(scopes), "make", named[n])]
           /\ scopes' = PushLocal(Len(scopes), id)
           /\ trace'  = trace \o TempCalls(r.calls, Top.id, id)
    /\ UNCHANGED <<named, nextScope, elide, env>>
    /\ nops' = nops + 1

\* BRPC_SCOPE_EXIT { ... };
\*   auto SCOPE_EXIT<n> = ScopeExitHelper() + [&]() noexcept { ... };
ScopeExit ==
    /\ CanRun /\ HasFresh(1)
    /\ LET id == Fresh(1)
           f  == Closure(id)
           r  == Hand(ScopeExitPlus(ByValue(f), elide), elide)
       IN  /\ guards' = [guards EXCEPT ![id] =
                            [Declared(id, r, Len(scopes), "sugar", f)
                                EXCEPT !.cap = Capture(env)]]
           /\ scopes' = PushLocal(Len(scopes), id)
           /\ trace'  = trace \o TempCalls(r.calls, Top.id, id)
    /\ UNCHANGED <<named, nextScope, elide, env>>
    /\ nops' = nops + 1

\* Guards the program can name: the variable BRPC_SCOPE_EXIT declares has a
\* name generated from __COUNTER__, which the program does not write.
Nameable == {i \in InScope : guards[i].via # "sugar"}

\* auto b = std::move(a);
Move(a) ==
    /\ CanRun /\ HasFresh(1)
    /\ a \in Nameable
    /\ ~guards[a].obj._callback.ref
    /\ LET b  == Fresh(1)
           mv == MoveCtor(guards[a].obj)
       IN  /\ guards' = [guards EXCEPT
                            ![a].obj = mv.old,
                            ![a].movedFrom = TRUE,
                            ![b] = MovedTo(a, mv.new, Len(scopes))]
           /\ scopes' = PushLocal(Len(scopes), b)
    /\ UNCHANGED <<named, trace, nextScope, elide, env>>
    /\ nops' = nops + 1

\* x.dismiss();
Dismiss(x) ==
    /\ CanRun
    /\ x \in Nameable
    /\ guards' = [guards EXCEPT ![x].obj = dismiss(@),
                                ![x].ndismiss = @ + 1]
    /\ UNCHANGED <<scopes, named, trace, nextScope, elide, env>>
    /\ nops' = nops + 1

\* n = <callable with behaviour f>;  the client changes its own callable
\* (observable only while a guard made from n is alive).
AssignNamed(n, f) ==
    /\ CanRun
    /\ named[n] # f
    /\ \E i \in InScope : guards[i].obj._callback = ByRef(n)
    /\ named' = [named EXCEPT ![n] = f]
    /\ UNCHANGED <<guards, scopes, trace, nextScope, elide, env>>
    /\ nops' = nops + 1

\* return a;  in a helper whose body is the innermost scope: the returned
\* object is move constructed in the caller before the helper's variables
\* are destroyed.
ReturnMove(a) ==
    /\ CanRun /\ Len(scopes) >= 2
    /\ HasFresh(IF elide THEN 1 ELSE 2)
    /\ \E k \in 1 .. Len(Top.locals) : Top.locals[k] = a
    /\ a \in Nameable
    /\ ~guards[a].obj._callback.ref
    /\ LET b  == Fresh(1)
           mv == MoveCtor(guards[a].obj)
       IN  /\ guards' = [guards EXCEPT
                            ![a].obj = mv.old,
                            ![a].movedFrom = TRUE,
                            ![b] = MovedTo(a, mv.new, Len(scopes) - 1)]
           /\ scopes' = [scopes EXCEPT ![Len(scopes)].mode = "exit",
                                       ![Len(scopes)].ret = b]
    /\ UNCHANGED <<named, trace, nextScope, elide, env>>
    /\ nops' = nops + 1

\* v = w;  the client assigns to the variable that a block of
\* BRPC_SCOPE_EXIT in an open scope uses.
AssignEnv(w) ==
    /\ CanRun
    /\ env # w
    /\ \E i \in InScope : guards[i].via = "sugar"
    /\ env' = w
    /\ UNCHANGED <<guards, scopes, named, trace, nextScope, elide>>
    /\ nops' = nops + 1

\* "}" reached by fall-through, or a return without a guard.
Exit ==
    /\ Running
    /\ scopes' = [scopes EXCEPT ![Len(scopes)].mode = "exit"]
    /\ UNCHANGED <<guards, named, trace, nextScope, nops, elide, env>>

\* throw ...;  the nearest enclosing try block with a matching handler is the
\* open scope at depth h.
Throw(h) ==
    /\ Running
    /\ h \in 1 .. Len(scopes)
    /\ scopes' = [scopes EXCEPT ![Len(scopes)].mode = "unwind",
                                ![h].try = TRUE]
    /\ trace' = Append(trace, Ev("throw", Top.id, NoGuard, 0, "none"))
    /\ UNCHANGED <<guards, named, nextScope, nops, elide, env>>

\* Leaving a scope destroys its variables in reverse order of declaration.
DestroyNext ==
    /\ Leaving
    /\ Len(Top.locals) > 0
    /\ LET x     == Top.locals[Len(Top.locals)]
           calls == Dtor(guards[x].obj)
           sugar == guards[x].via = "sugar"
       IN  /\ guards' = [guards EXCEPT ![x].status = "dead"]
           /\ trace'  = trace \o
                  [k \in 1 .. Len(calls) |->
                      [Ev("call", Top.id, x, guards[x].origin, calls[k])
                          EXCEPT !.saw = IF sugar
                                         THEN ReadThrough(guards[x].cap)
                                         ELSE "none"]]
           /\ env' = IF sugar /\ Len(calls) > 0
                     THEN WriteThrough(guards[x].cap, Closure(x))
                     ELSE env
           /\ scopes' = [scopes EXCEPT ![Len(scopes)].locals =
                            SubSeq(@, 1, Len(@) - 1)]
    /\ UNCHANGED <<named, nextScope, nops, elide>>

Pop == SubSeq(scopes, 1, Len(scopes) - 1)

\* All variables are gone: control is back in the enclosing scope.
EndScopeNormal ==
    /\ Leaving /\ Top.mode = "exit"
    /\ Len(Top.locals) = 0
    /\ Top.ret = NoGuard
    /\ scopes' = Pop
    /\ UNCHANGED <<guards, named, trace, nextScope, nops, elide, env>>

\* auto b = helper();  the helper has returned the guard Top.ret.
EndScopeReturn ==
    /\ Leaving /\ Top.mode = "exit"
    /\ Len(Top.locals) = 0
    /\ Top.ret # NoGuard
    /\ LET t == Top.ret
           d == Len(scopes) - 1
       IN  IF elide
           THEN /\ scopes' = [Pop EXCEPT ![d].locals = Append(@, t)]
                /\ UNCHANGED <<guards, trace>>
           ELSE LET b  == Fresh(1)
                    mv == MoveCtor(guards[t].obj)
                    calls == Dtor(mv.old)
                IN  /\ guards' = [guards EXCEPT
                                    ![t].obj = mv.old,
                                    ![t].movedFrom = TRUE,
                                    ![t].status = "dead",
                                    ![b] = MovedTo(t, mv.new, d)]
                    /\ trace' = trace \o
                          [k \in 1 .. Len(calls) |->
                              Ev("call", scopes[d].id, t, guards[t].origin,
                                 calls[k])]
                    /\ scopes' = [Pop EXCEPT ![d].locals = Append(@, b)]
    /\ UNCHANGED <<named, nextScope, nops, elide, env>>

\* The exception leaves the scope: caught by the handler of this try block,
\* or propagating into the enclosing scope.
EndScopeUnwind ==
    /\ Leaving /\ Top.mode = "unwind"
    /\ Len(Top.locals) = 0
    /\ IF Top.try
       THEN /\ scopes' = Pop
            /\ trace' = Append(trace, Ev("caught", Top.id, NoGuard, 0, "none"))
       ELSE /\ scopes' = [Pop EXCEPT ![Len(scopes) - 1].mode = "unwind"]
            /\ trace' = Append(trace, Ev("escape", Top.id, NoGuard, 0, "none"))
    /\ UNCHANGED <<guards, named, nextScope, nops, elide, env>>

Next ==
    \/ EnterScope
    \/ Stmt
    \/ CreateRvalue
    \/ \E n \in Names : CreateLvalue(n)
    \/ ScopeExit
    \/ \E a \in GuardIds : Move(a)
    \/ \E x \in GuardIds : Dismiss(x)
    \/ \E n \in Names, f \in Actions : AssignNamed(n, f)
    \/ \E w \in Values : AssignEnv(w)
    \/ \E a \in GuardIds : ReturnMove(a)
    \/ Exit
    \/ \E h \in 1 .. MaxScopes : Throw(h)
    \/ DestroyNext
    \/ EndScopeNormal
    \/ EndScopeReturn
    \/ EndScopeUnwind

Spec == Init /\ [][Next]_vars

TypeOK ==
    /\ elide \in BOOLEAN
    /\ nextScope \in 1 .. MaxScopes + 1
    /\ Len(scopes) <= MaxScopes
    /\ \A i \in GuardIds : guards[i].status \in {"none", "live", "dead"}

----------------------------------------------------------------------------
\* Reading the trace.

IsCall(k)  == trace[k].kind = "call"
\* The invocations made by the destructor of guard x.
CallsBy(x) == {k \in DOMAIN trace : IsCall(k) /\ trace[k].by = x}
\* The invocations of the callable given to the factory call that made guard o,
\* by whichever guard or temporary.
CallsOf(o) == {k \in DOMAIN trace : IsCall(k) /\ trace[k].origin = o}

Live(x)  == guards[x].status = "live"
Dead(x)  == guards[x].status = "dead"
Armed(x) == ~guards[x].obj._dismiss
\* Made by a factory call and never touched afterwards.
Untouched(x) == guards[x].ndismiss = 0 /\ ~guards[x].movedFrom
FromMake(x)  == guards[x].via = "make"
FromFactory(x) == guards[x].via \in {"make", "sugar"}

----------------------------------------------------------------------------
\* C1: a guard made by MakeScopeGuard that is neither dismissed nor moved
\* from invokes its callable exactly once: not while it is alive, and once it
\* is destroyed exactly one invocation has happened, made by its own
\* destructor while its own scope was being left, after every other statement
\* of that scope.
C1_ExactlyOnceAtScopeEnd ==
    \A x \in GuardIds :
        FromMake(x) /\ Untouched(x) =>
            /\ Live(x) => CallsOf(x) = {}
            /\ Dead(x) =>
                /\ Cardinality(CallsOf(x)) = 1
                /\ CallsBy(x) = CallsOf(x)
                /\ \A k \in CallsBy(x) :
                    /\ trace[k].scope = guards[x].scope
                    /\ \A j \in DOMAIN trace :
                          trace[j].kind \in {"stmt", "throw"}
                          /\ trace[j].scope = guards[x].scope => j < k

\* C1 witness: such a guard has been destroyed at the end of a scope in
\* which another statement was executed after its declaration.
C1_Witness ==
    \E x \in GuardIds :
        /\ FromMake(x) /\ Untouched(x) /\ Dead(x)
        /\ \E j \in DOMAIN trace :
              trace[j].kind = "stmt" /\ trace[j].scope = guards[x].scope
        /\ CallsBy(x) # {}

----------------------------------------------------------------------------
\* b was move constructed from a guard that came straight from a factory call
\* and had been neither dismissed nor moved from before.
FirstMoveOfArmed(b) ==
    /\ guards[b].via = "move"
    /\ FromFactory(guards[b].from)
    /\ guards[b].srcNd = 0 /\ ~guards[b].srcMoved

\* C2: when B is move constructed from a guard A over f and both have reached
\* the end of their lives (B neither dismissed nor moved from), f has been
\* invoked exactly once in total, by B's destructor and not by A's.
C2_MoveTransfersObligation ==
    \A b \in GuardIds :
        FirstMoveOfArmed(b) /\ Untouched(b) /\ Dead(b) /\ Dead(guards[b].from) =>
            /\ Cardinality(CallsOf(guards[b].origin)) = 1
            /\ CallsOf(guards[b].origin) = CallsBy(b)
            /\ CallsBy(guards[b].from) = {}

\* C2 witness: A moved into B, both destroyed.
C2_Witness ==
    \E b \in GuardIds :
        /\ FirstMoveOfArmed(b) /\ Untouched(b) /\ Dead(b) /\ Dead(guards[b].from)
        /\ CallsBy(b) # {}

\* C3: a guard on which dismiss() was called never invokes its callable; if it
\* came from a factory call and was not moved from, the callable is invoked
\* zero times.
C3_DismissSuppresses ==
    \A x \in GuardIds :
        guards[x].ndismiss >= 1 =>
            /\ CallsBy(x) = {}
            /\ FromFactory(x) /\ ~guards[x].movedFrom => CallsOf(x) = {}

\* C3 witness: a guard made by MakeScopeGuard, dismissed, and destroyed at
\* the end of its scope.
C3_Witness ==
    \E x \in GuardIds :
        /\ FromMake(x) /\ guards[x].ndismiss >= 1 /\ ~guards[x].movedFrom
        /\ Dead(x)

\* b was move constructed from a guard that came from a factory call and had
\* been dismissed, and not moved from, before.
MoveOfDismissed(b) ==
    /\ guards[b].via = "move"
    /\ FromFactory(guards[b].from)
    /\ guards[b].srcNd >= 1 /\ ~guards[b].srcMoved

\* C4: when A is dismissed and then moved into B, B is disarmed from its
\* construction on, and the callable is invoked zero times, by B, by A or by
\* any other guard.
C4_MoveAfterDismissStaysDismissed ==
    \A b \in GuardIds :
        MoveOfDismissed(b) =>
            /\ Live(b) => ~Armed(b)
            /\ CallsOf(guards[b].origin) = {}

\* C4 witness: A dismissed, moved into B, and both destroyed.
C4_Witness ==
    \E b \in GuardIds :
        MoveOfDismissed(b) /\ Dead(b) /\ Dead(guards[b].from)

\* The exception thrown in scope s has left s (event j).
Left(j) == trace[j].kind \in {"escape", "caught"}

\* C5: when an exception leaves a scope, every guard of that scope that was
\* made by MakeScopeGuard and neither dismissed nor moved from has invoked its
\* callable exactly once, and did so before the exception left the scope.
C5_RunsOnUnwind ==
    \A j \in DOMAIN trace : \A x \in GuardIds :
        /\ Left(j) /\ guards[x].scope = trace[j].scope
        /\ FromMake(x) /\ Untouched(x)
        => /\ Cardinality(CallsOf(x)) = 1
           /\ CallsBy(x) = CallsOf(x)
           /\ \A k \in CallsBy(x) : k < j

\* C5 witness: an exception has left a scope holding such a guard and has
\* been caught by an enclosing handler.
C5_Witness ==
    \E j \in DOMAIN trace : \E x \in GuardIds :
        /\ trace[j].kind = "escape" /\ guards[x].scope = trace[j].scope
        /\ FromMake(x) /\ Untouched(x)
        /\ \E i \in DOMAIN trace : trace[i].kind = "caught" /\ i > j

\* C6: dismiss() on a guard that dismiss() was already called on leaves the
\* guard object as it is, and a guard dismissed twice or more never invokes
\* its callable.
C6_DismissIdempotent ==
    /\ [][\A x \in GuardIds :
            guards[x].ndismiss >= 1
            /\ guards'[x].ndismiss = guards[x].ndismiss + 1
            => guards'[x].obj = guards[x].obj]_vars
    /\ [](\A x \in GuardIds : guards[x].ndismiss >= 2 => CallsBy(x) = {})

\* C6 witness: a guard dismissed twice has been destroyed.
C6_Witness ==
    \E x \in GuardIds : guards[x].ndismiss >= 2 /\ Dead(x)

\* C7: the guard owns its callable, so whatever a guard's destructor runs is
\* the behaviour the callable had when it was handed to MakeScopeGuard.
\* (Fails for a named callable: the guard holds a reference to the client's
\* object and runs what the client has stored in it since.)
C7_RunsActionAsCreated ==
    \A k \in DOMAIN trace :
        IsCall(k) /\ trace[k].by # NoGuard =>
            trace[k].act = guards[trace[k].by].made

\* C8: among the live guards that descend from one factory call, at most one
\* is armed.
C8_AtMostOneArmedOwner ==
    \A x, y \in GuardIds :
        /\ x # y /\ Live(x) /\ Live(y)
        /\ guards[x].origin = guards[y].origin
        => ~(Armed(x) /\ Armed(y))

\* C8 witness: a guard and the guard it was moved into are both alive, and
\* the destination is armed.
C8_Witness ==
    \E x, y \in GuardIds :
        /\ Live(x) /\ Live(y) /\ guards[y].from = x
        /\ Armed(y)

\* C9: the factories invoke nothing: no temporary guard destroyed while a
\* guard is initialised has invoked a callable, and a guard that came from a
\* factory call and has not been touched since is armed, with its callable
\* not yet invoked.
C9_CreateInvokesNothing ==
    /\ \A k \in DOMAIN trace : IsCall(k) => trace[k].by # NoGuard
    /\ \A x \in GuardIds :
          FromFactory(x) /\ Untouched(x) /\ Live(x) =>
              Armed(x) /\ CallsOf(x) = {}

\* C9 witness: in a build that does not elide copies, a guard made by
\* MakeScopeGuard has been initialised through moved-from temporaries, which
\* have been destroyed.
C9_Witness ==
    \E x \in GuardIds :
        /\ ~elide /\ FromMake(x) /\ Untouched(x) /\ Live(x)
        /\ guards[x].hops >= 2

\* C10: two uses of BRPC_SCOPE_EXIT in one scope make two guards with a
\* callable each; once the scope has been left each has run its own callable
\* exactly once, the one declared last first.
C10_SugarReverseOrder ==
    \A x, y \in GuardIds :
        /\ x < y
        /\ guards[x].via = "sugar" /\ guards[y].via = "sugar"
        /\ guards[x].scope = guards[y].scope
        => /\ guards[x].made # guards[y].made
           /\ Dead(x) =>
                /\ Dead(y)
                /\ Cardinality(CallsBy(x)) = 1 /\ CallsOf(x) = CallsBy(x)
                /\ Cardinality(CallsBy(y)) = 1 /\ CallsOf(y) = CallsBy(y)
                /\ \A i \in CallsBy(x), j \in CallsBy(y) :
                      /\ j < i
                      /\ trace[i].act = guards[x].made
                      /\ trace[j].act = guards[y].made

\* C10 witness: a scope with two uses of BRPC_SCOPE_EXIT has been left.
C10_Witness ==
    \E x, y \in GuardIds :
        /\ x < y
        /\ guards[x].via = "sugar" /\ guards[y].via = "sugar"
        /\ guards[x].scope = guards[y].scope
        /\ Dead(x) /\ Dead(y)

\* The scope of guard x has been left by an exception.
LeftByException(x) ==
    \E j \in DOMAIN trace : Left(j) /\ trace[j].scope = guards[x].scope

\* C11: the guard declared by BRPC_SCOPE_EXIT is never dismissed and never
\* moved from; it invokes nothing while it is alive, and once its scope has
\* been left, by whichever path, its own callable has been invoked exactly
\* once, by its destructor while that scope was being left.
C11_SugarAlwaysRuns ==
    \A x \in GuardIds :
        guards[x].via = "sugar" =>
            /\ Untouched(x)
            /\ Live(x) => Armed(x) /\ CallsOf(x) = {}
            /\ Dead(x) =>
                /\ Cardinality(CallsOf(x)) = 1
                /\ CallsBy(x) = CallsOf(x)
                /\ \A k \in CallsBy(x) :
                      /\ trace[k].scope = guards[x].scope
                      /\ trace[k].act = guards[x].made

\* C11 witness: one scope with a BRPC_SCOPE_EXIT has been left by an
\* exception and another one by reaching its end.
C11_Witness ==
    \E x, y \in GuardIds :
        /\ guards[x].via = "sugar" /\ guards[y].via = "sugar"
        /\ Dead(x) /\ Dead(y)
        /\ LeftByException(x) /\ ~LeftByException(y)

\* C13: dismiss() on a guard that has been moved from changes no guard
\* object, neither the husk nor any other; and when the husk A of an armed
\* move into B is dismissed, B (neither dismissed nor moved from) still
\* invokes the callable exactly once at its end of life, and A never does.
C13_DismissOfHuskHasNoEffect ==
    /\ [][\A a \in GuardIds :
            guards[a].movedFrom
            /\ guards'[a].ndismiss = guards[a].ndismiss + 1
            => \A x \in GuardIds : guards'[x].obj = guards[x].obj]_vars
    /\ [](\A b \in GuardIds :
            /\ FirstMoveOfArmed(b) /\ Untouched(b) /\ Dead(b)
            /\ guards[guards[b].from].ndismiss >= 1
            => /\ Cardinality(CallsBy(b)) = 1
               /\ CallsOf(guards[b].origin) = CallsBy(b)
               /\ CallsBy(guards[b].from) = {})

\* C13 witness: A was moved into B of the same scope while armed, dismiss()
\* was called on A afterwards, and B has been destroyed.
C13_Witness ==
    \E b \in GuardIds :
        /\ FirstMoveOfArmed(b) /\ Untouched(b) /\ Dead(b)
        /\ guards[guards[b].from].ndismiss >= 1
        /\ guards[guards[b].from].scope = guards[b].scope

\* C14: a callable is invoked only by the destructor of a guard that was
\* alive and armed: every step that adds invocations destroys the guard that
\* makes them, and no step of MakeScopeGuard, operator+, dismiss() or move
\* construction adds one.
C14_OnlyDestructionInvokes ==
    [][\A k \in DOMAIN trace' :
          k > Len(trace) /\ trace'[k].kind = "call" =>
              /\ trace'[k].by \in GuardIds
              /\ Live(trace'[k].by) /\ Armed(trace'[k].by)
              /\ guards'[trace'[k].by].status = "dead"
              /\ nops' = nops]_vars

\* C14 witness: a guard has been made, moved and dismissed, and a destructor
\* has invoked a callable.
C14_Witness ==
    /\ \E k \in DOMAIN trace : IsCall(k)
    /\ \E x \in GuardIds : guards[x].via = "move"
    /\ \E x \in GuardIds : guards[x].ndismiss >= 1

\* C15: a guard that is disarmed, by dismiss() or as the source of a move,
\* stays disarmed whatever happens to it or to any other guard.
C15_DisarmIsForever ==
    [][\A x \in GuardIds :
          guards[x].status # "none" /\ ~Armed(x) => guards'[x].obj._dismiss]_vars

\* C15 witness: a guard was disarmed by a move and then dismissed, and is
\* still alive and disarmed while the guard it was moved into has been destroyed.
C15_Witness ==
    \E x, y \in GuardIds :
        /\ guards[x].movedFrom /\ guards[x].ndismiss >= 1
        /\ Live(x) /\ ~Armed(x)
        /\ guards[y].from = x /\ Dead(y)

\* The guards that descend, by any number of moves, from factory call o.
Lineage(o) == {x \in GuardIds : guards[x].status # "none" /\ guards[x].origin = o}

\* C16: whatever the client does (moves in chains, repeated moves out of one
\* source, dismiss() calls, destruction in any order), the callable given to
\* one factory call is invoked at most once in total.
C16_AtMostOnce ==
    \A o \in GuardIds : Cardinality(CallsOf(o)) <= 1

\* C16 witness: three guards of one lineage (a chain of two moves, or two
\* moves out of the same source) have all been destroyed, and the callable
\* has been invoked.
C16_Witness ==
    \E o \in GuardIds :
        /\ Cardinality(Lineage(o)) >= 3
        /\ \A x \in Lineage(o) : Dead(x)
        /\ CallsOf(o) # {}

\* The guards of factory call o form a chain of moves, each out of the guard
\* made last, and dismiss() was called on none of them.
PlainChain(o) ==
    /\ guards[o].status # "none" /\ FromFactory(o)
    /\ \A x \in Lineage(o) :
          /\ guards[x].ndismiss = 0
          /\ guards[x].via = "move" => ~guards[x].srcMoved

\* C17: in a chain of moves without dismiss(), a guard that has been moved
\* from invokes nothing at its end of life, also when it dies before the guard
\* it was moved into; the callable is not invoked while the last guard of the
\* chain is alive, and is invoked exactly once, by that guard's destructor,
\* when it dies.
C17_FiresAtEndOfLastInChain ==
    \A o \in GuardIds :
        PlainChain(o) =>
            \A z \in Lineage(o) :
                /\ guards[z].movedFrom => CallsBy(z) = {}
                /\ ~guards[z].movedFrom =>
                    /\ Live(z) => CallsOf(o) = {}
                    /\ Dead(z) => /\ Cardinality(CallsOf(o)) = 1
                                  /\ CallsOf(o) = CallsBy(z)

\* C17 witness: a guard was returned from a helper, the helper's guard died
\* first, and the guard in the caller's scope has died and invoked the callable
\* while the caller's scope was being left.
C17_Witness ==
    \E o \in GuardIds : \E a, b \in Lineage(o) :
        /\ PlainChain(o)
        /\ guards[b].from = a /\ ~guards[b].movedFrom
        /\ guards[a].scope > guards[b].scope
        /\ Dead(a) /\ Dead(b)
        /\ \E k \in CallsBy(b) : trace[k].scope = guards[b].scope

\* C18: when A is moved into B while armed and dismiss() is then called on B
\* (B not moved from), the callable is invoked zero times, by A, by B or by
\* anyone.
C18_DismissMovesWithOwnership ==
    \A b \in GuardIds :
        FirstMoveOfArmed(b) /\ guards[b].ndismiss >= 1 /\ ~guards[b].movedFrom
        => CallsOf(guards[b].origin) = {}

\* C18 witness: A moved into B while armed, B dismissed, both destroyed.
C18_Witness ==
    \E b \in GuardIds :
        /\ FirstMoveOfArmed(b) /\ guards[b].ndismiss >= 1 /\ ~guards[b].movedFrom
        /\ Dead(b) /\ Dead(guards[b].from)

\* C12: the block of a BRPC_SCOPE_EXIT works on the client's variable
\* itself: when it runs it reads the value the variable has at that moment,
\* and the value it assigns is the variable's value afterwards.
C12_SugarCapturesByReference ==
    [][\A k \in DOMAIN trace' :
          /\ k > Len(trace) /\ trace'[k].kind = "call"
          /\ trace'[k].by \in GuardIds
          /\ guards[trace'[k].by].via = "sugar"
          => /\ trace'[k].saw = env
             /\ env' = Closure(trace'[k].by)]_vars

\* C12 witness: the block of a BRPC_SCOPE_EXIT has run after the client
\* assigned to the variable past the declaration; it read the new value, and
\* the variable holds what the block wrote.
C12_Witness ==
    \E k \in DOMAIN trace :
        /\ IsCall(k) /\ trace[k].by \in GuardIds
        /\ guards[trace[k].by].via = "sugar"
        /\ trace[k].saw # guards[trace[k].by].cap.snap
        /\ env = Closure(trace[k].by)

====
